---- MODULE Spec2Model ----
(***************************************************************************)
(* Cellular-automata cave generator (map_generator): the Map grid, the     *)
(* neighbour counts, the growth and cleanup rules and the gen_cave         *)
(* pipeline, with the properties checked of them.                          *)
(***************************************************************************)
EXTENDS Integers, Sequences, FiniteSets, TLC

VARIABLES
    grid,       \* the Map under test (Map { map, height, width })
    last,       \* the last public or rule operation applied to grid, with its result
    args,       \* the arguments of the generator calls: height, width, seed, cleanup variant
    pc,         \* per invocation of gen_cave: the position in its body
    rng,        \* per invocation: the random source handed to gen_cave
    cave,       \* per invocation: the local `map` of gen_cave
    hist,       \* per invocation: the passes run so far, in order
    pass        \* one automata pass in progress: source grid, new grid, cells written

vars == <<grid, last, args, pc, rng, cave, hist, pass>>

(***************************************************************************)
(* Bounds of the model.                                                    *)
(***************************************************************************)
MaxGridDim == 2      \* largest height and width of the get/set specification
MaxDim == 5          \* largest height and width of the rule specification
MaxBurst == 2        \* consecutive draws of a random stream that differ from its background
MaxGenDim == 4       \* largest height and width given to gen_cave
MaxTwiceDim == 4     \* largest height and width given to two calls of gen_cave_seed
MaxPassDim == 3      \* largest height and width of a pass computed cell by cell
MaxPassCells == 9    \* largest height * width of a pass computed cell by cell
MaxCleanups == 2     \* cleanup passes applied in a row to one grid

(***************************************************************************)
(* Program constants.                                                      *)
(***************************************************************************)
MIN_KEEP_WALL == 4
MIN_NEW_WALL == 5
GROWTH_PASSES == 5

(***************************************************************************)
(* Map: storage and bounds semantics.                                      *)
(***************************************************************************)
\* Map::new: all cells false, a flat vector of width * height cells.
new(height, width) ==
    [map |-> [k \in 0..(width * height - 1) |-> FALSE],
     width |-> width,
     height |-> height]

\* The test of Map::get that a coordinate is outside the map.
get_outside_off_by_one(m, y, x) == y > m.height \/ x > m.width
get_outside(m, y, x) == y >= m.height \/ x >= m.width

\* A vector index: self.map[k] panics when k is not an index of the vector.
index_panics(m, k) == k \notin DOMAIN m.map

\* Map::get.  A panicking index returns nothing; it is modelled as "not wall".
get(m, y, x) ==
    IF get_outside(m, y, x) THEN TRUE
    ELSE IF index_panics(m, y * m.width + x) THEN FALSE
    ELSE m.map[y * m.width + x]

get_panics(m, y, x) == ~get_outside(m, y, x) /\ index_panics(m, y * m.width + x)

\* The test of Map::set that a coordinate is inside the map.
set_inside_off_by_one(m, y, x) == y <= m.height /\ x <= m.width
set_inside(m, y, x) == y < m.height /\ x < m.width

\* Map::set.  A panicking index leaves the map as it was.
set(m, y, x, new_val) ==
    IF set_inside(m, y, x) /\ ~index_panics(m, y * m.width + x)
    THEN [m EXCEPT !.map[y * m.width + x] = new_val]
    ELSE m

set_panics(m, y, x) == set_inside(m, y, x) /\ index_panics(m, y * m.width + x)

(***************************************************************************)
(* Neighbour counts.  A probe is one `if` of a count: `skip` is the part   *)
(* of its condition before the call of get (short-circuit ||), and (yy,xx) *)
(* the coordinate given to get, computed in usize.  A coordinate below     *)
(* zero is an unsigned subtraction below zero: a panic in a checked build, *)
(* a wrap to a value beyond every height and width (hence wall) otherwise. *)
(***************************************************************************)
probe(m, skip, yy, xx) ==
    IF skip THEN [wall |-> TRUE, underflow |-> FALSE]
    ELSE IF yy < 0 \/ xx < 0 THEN [wall |-> TRUE, underflow |-> TRUE]
    ELSE [wall |-> get(m, yy, xx), underflow |-> FALSE]

\* Number of probes of a sequence that add one to the count.
RECURSIVE count_from(_, _)
count_from(ps, k) ==
    IF k > Len(ps) THEN 0
    ELSE (IF ps[k].wall THEN 1 ELSE 0) + count_from(ps, k + 1)

count_hits(ps) == count_from(ps, 1)

any_underflow(ps) == \E k \in DOMAIN ps : ps[k].underflow

\* The eight `if`s of count_neighbours, in source order.
neighbour_probes_unguarded(m, y, x) ==
    << probe(m, x = 0 \/ y = 0, y - 1, x - 1),
       probe(m, y = 0, y - 1, x),
       probe(m, FALSE, y - 1, x + 1),
       probe(m, FALSE, y, x + 1),
       probe(m, FALSE, y + 1, x + 1),
       probe(m, FALSE, y + 1, x),
       probe(m, x = 0, y + 1, x - 1),
       probe(m, x = 0, y, x - 1) >>
neighbour_probes(m, y, x) ==
    << probe(m, x = 0 \/ y = 0, y - 1, x - 1),
       probe(m, y = 0, y - 1, x),
       probe(m, y = 0, y - 1, x + 1),
       probe(m, FALSE, y, x + 1),
       probe(m, FALSE, y + 1, x + 1),
       probe(m, FALSE, y + 1, x),
       probe(m, x = 0, y + 1, x - 1),
       probe(m, x = 0, y, x - 1) >>

count_neighbours(m, y, x) == count_hits(neighbour_probes(m, y, x))

\* The sixteen `if`s of count_far_neighbours, in source order.
far_probes_window(m, y, x) ==
    << probe(m, x <= 1 \/ y <= 1, y - 2, x - 2),
       probe(m, x = 0 \/ y <= 1, y - 2, x - 1),
       probe(m, y <= 1, y - 2, x),
       probe(m, y <= 1, y - 2, x + 1),
       probe(m, y <= 1, y - 2, x + 2),
       probe(m, y <= 1, y - 2, x + 2),
       probe(m, FALSE, y, x + 2),
       probe(m, FALSE, y + 1, x + 2),
       probe(m, FALSE, y + 2, x + 2),
       probe(m, FALSE, y + 2, x + 1),
       probe(m, FALSE, y + 2, x),
       probe(m, x = 0, y + 2, x - 1),
       probe(m, x <= 1, y + 2, x - 2),
       probe(m, x <= 1, y + 1, x - 2),
       probe(m, x <= 1, y, x - 2),
       probe(m, x <= 1 \/ y = 0, y - 1, x - 2) >>
far_probes(m, y, x) ==
    << probe(m, x <= 1 \/ y <= 1, y - 2, x - 2),
       probe(m, x = 0 \/ y <= 1, y - 2, x - 1),
       probe(m, y <= 1, y - 2, x),
       probe(m, y <= 1, y - 2, x + 1),
       probe(m, y <= 1, y - 2, x + 2),
       probe(m, y = 0, y - 1, x + 2),
       probe(m, FALSE, y, x + 2),
       probe(m, FALSE, y + 1, x + 2),
       probe(m, FALSE, y + 2, x + 2),
       probe(m, FALSE, y + 2, x + 1),
       probe(m, FALSE, y + 2, x),
       probe(m, x = 0, y + 2, x - 1),
       probe(m, x <= 1, y + 2, x - 2),
       probe(m, x <= 1, y + 1, x - 2),
       probe(m, x <= 1, y, x - 2),
       probe(m, x <= 1 \/ y = 0, y - 1, x - 2) >>

count_far_neighbours(m, y, x) ==
    count_neighbours(m, y, x) + count_hits(far_probes(m, y, x))

count_underflows(m, y, x) ==
    any_underflow(neighbour_probes(m, y, x)) \/ any_underflow(far_probes(m, y, x))

empty_space(m, y, x) == count_far_neighbours(m, y, x) = 0

(***************************************************************************)
(* The update rules.                                                       *)
(***************************************************************************)
calculate_new_cell_no_keep(m, y, x) ==
    LET num_neighbours == count_neighbours(m, y, x) IN
    IF num_neighbours >= MIN_NEW_WALL \/ empty_space(m, y, x) THEN TRUE
    ELSE IF num_neighbours = MIN_KEEP_WALL THEN TRUE
    ELSE FALSE
calculate_new_cell(m, y, x) ==
    LET num_neighbours == count_neighbours(m, y, x) IN
    IF num_neighbours >= MIN_NEW_WALL \/ empty_space(m, y, x) THEN TRUE
    ELSE IF num_neighbours = MIN_KEEP_WALL /\ get(m, y, x) THEN TRUE
    ELSE FALSE

cleanup_cell_strict(m, y, x) ==
    LET num_neighbours == count_neighbours(m, y, x) IN
    IF num_neighbours > MIN_NEW_WALL THEN TRUE
    ELSE IF num_neighbours = MIN_KEEP_WALL /\ get(m, y, x) THEN TRUE
    ELSE FALSE
cleanup_cell_exact(m, y, x) ==
    LET num_neighbours == count_neighbours(m, y, x) IN
    IF num_neighbours = MIN_NEW_WALL THEN TRUE
    ELSE IF num_neighbours = MIN_KEEP_WALL /\ get(m, y, x) THEN TRUE
    ELSE FALSE
cleanup_cell(m, y, x) ==
    LET num_neighbours == count_neighbours(m, y, x) IN
    IF num_neighbours >= MIN_NEW_WALL THEN TRUE
    ELSE IF num_neighbours = MIN_KEEP_WALL /\ get(m, y, x) THEN TRUE
    ELSE FALSE

(***************************************************************************)
(* One automata pass.  pass_write is the body of the two nested loops:     *)
(* new_map.set(i, j, self.<rule>(i, j)).                                   *)
(***************************************************************************)
rule_cell(rule, self, i, j) ==
    IF rule = "growth" THEN calculate_new_cell(self, i, j) ELSE cleanup_cell(self, i, j)

pass_write_in_place(rule, self, new_map, i, j) ==
    set(new_map, i, j, rule_cell(rule, new_map, i, j))
pass_write(rule, self, new_map, i, j) ==
    set(new_map, i, j, rule_cell(rule, self, i, j))

\* for i in 0..height { for j in 0..width { ... } }, from the k-th cell on.
RECURSIVE pass_loop(_, _, _, _)
pass_loop(rule, self, new_map, k) ==
    IF k >= self.height * self.width THEN new_map
    ELSE pass_loop(rule, self,
                   pass_write(rule, self, new_map, k \div self.width, k % self.width),
                   k + 1)

next_cellular_automata(self) ==
    pass_loop("growth", self, new(self.height, self.width), 0)

cleanup_cellular_automata(self) ==
    pass_loop("cleanup", self, new(self.height, self.width), 0)

(***************************************************************************)
(* The random source.  A stream of Bernoulli draws is a background (all    *)
(* false, all true, or alternating) and `marks`, a burst of consecutive    *)
(* positions whose draw differs from it; `pos` is the number of draws      *)
(* consumed.  A u64 seed is identified with the stream the generator       *)
(* seeded by it produces.                                                  *)
(***************************************************************************)
Bursts(n) == {{q \in 0..(n - 1) : p <= q /\ q < p + len} : p \in 0..(n - 1), len \in 0..MaxBurst}
                 \cup {{}}

Backgrounds == {"floor", "wall", "alt"}

Streams(n) == {[marks |-> s, bg |-> b] : s \in Bursts(n), b \in Backgrounds}

seed_from_u64(seed) == [marks |-> seed.marks, bg |-> seed.bg, pos |-> 0]

background(bg, k) == IF bg = "alt" THEN k % 2 = 0 ELSE bg = "wall"

gen_bool(r) == background(r.bg, r.pos) # (r.pos \in r.marks)

advance(r) == [r EXCEPT !.pos = r.pos + 1]

\* fill_random: one draw per cell, rows outermost.
RECURSIVE fill_loop(_, _, _)
fill_loop(m, r, k) ==
    IF k >= m.height * m.width THEN [map |-> m, rng |-> r]
    ELSE fill_loop(set(m, k \div m.width, k % m.width, gen_bool(r)), advance(r), k + 1)

fill_random(m, r) == fill_loop(m, r, 0)

\* The grid a stream fills.
filled(height, width, s) == fill_random(new(height, width), seed_from_u64(s)).map

(***************************************************************************)
(* Values of the variables a specification does not use.                   *)
(***************************************************************************)
Runs == {1, 2}

NoGrid == new(0, 0)
NoLast == [op |-> "none"]
NoArgs == [height |-> 0, width |-> 0]
NoPass == [stage |-> "none"]
NoRuns == [r \in Runs |-> [at |-> "off", i |-> 0, via |-> "none"]]
NoRng == [r \in Runs |-> [marks |-> {}, bg |-> "floor", pos |-> 0]]
NoCave == [r \in Runs |-> NoGrid]
NoHist == [r \in Runs |-> <<>>]

GridIdle == grid = NoGrid /\ last = NoLast
GenIdle == args = NoArgs /\ pc = NoRuns /\ rng = NoRng /\ cave = NoCave /\ hist = NoHist
PassIdle == pass = NoPass

\* The in-bounds coordinates of a map.
Cells(m) == (0..(m.height - 1)) \X (0..(m.width - 1))

(***************************************************************************)
(* SpecGrid: a Map built by Map::new, read by get and written by set at    *)
(* coordinates inside and outside it.                                      *)
(***************************************************************************)
Coords == 0..(MaxGridDim + 1)

InitGrid ==
    /\ \E height \in 0..MaxGridDim, width \in 0..MaxGridDim :
          /\ grid = new(height, width)
          /\ last = [op |-> "new", y |-> height, x |-> width]
    /\ GenIdle
    /\ PassIdle

Get(y, x) ==
    /\ last' = [op |-> "get", y |-> y, x |-> x,
                ret |-> get(grid, y, x), panic |-> get_panics(grid, y, x), pre |-> grid]
    /\ UNCHANGED <<grid, args, pc, rng, cave, hist, pass>>

Set(y, x, new_val) ==
    /\ grid' = set(grid, y, x, new_val)
    /\ last' = [op |-> "set", y |-> y, x |-> x, v |-> new_val,
                panic |-> set_panics(grid, y, x), pre |-> grid]
    /\ UNCHANGED <<args, pc, rng, cave, hist, pass>>

NextGrid ==
    \/ \E y \in Coords, x \in Coords : Get(y, x)
    \/ \E y \in Coords, x \in Coords, new_val \in BOOLEAN : Set(y, x, new_val)

SpecGrid == InitGrid /\ [][NextGrid]_vars

\* C1: get at a coordinate with row >= height or col >= width returns true (wall),
\* whatever the dimensions and the contents written by set.
C1_OutOfBoundsIsWall ==
    /\ \A y \in Coords, x \in Coords :
          (y >= grid.height \/ x >= grid.width) => get(grid, y, x) /\ ~get_panics(grid, y, x)
    /\ (last.op = "get" /\ (last.y >= grid.height \/ last.x >= grid.width))
          => last.ret /\ ~last.panic

\* A get outside a map that holds both a floor cell and a wall cell.
C1_Witness ==
    /\ last.op = "get"
    /\ (last.y >= grid.height \/ last.x >= grid.width)
    /\ last.ret
    /\ \E c \in Cells(grid) : grid.map[c[1] * grid.width + c[2]]
    /\ \E c \in Cells(grid) : ~grid.map[c[1] * grid.width + c[2]]

\* C2: set inside the map makes get at that coordinate return the value written and
\* leaves every other cell and the dimensions as they were; set outside the map
\* leaves the whole map as it was; neither raises an error.
C2_SetFrame ==
    last.op = "set" =>
        /\ ~last.panic
        /\ grid.height = last.pre.height
        /\ grid.width = last.pre.width
        /\ DOMAIN grid.map = DOMAIN last.pre.map
        /\ IF last.y < last.pre.height /\ last.x < last.pre.width
           THEN /\ get(grid, last.y, last.x) = last.v
                /\ \A c \in Cells(grid) :
                      c # <<last.y, last.x>> => get(grid, c[1], c[2]) = get(last.pre, c[1], c[2])
           ELSE grid = last.pre

\* A set inside the map that changed a cell next to a wall cell it left alone.
C2_Witness ==
    /\ last.op = "set"
    /\ last.y < grid.height /\ last.x < grid.width
    /\ get(last.pre, last.y, last.x) # last.v
    /\ get(grid, last.y, last.x) = last.v
    /\ \E c \in Cells(grid) : c # <<last.y, last.x>> /\ get(grid, c[1], c[2])

(***************************************************************************)
(* SpecRules: the counts and the rules applied to a cell of a filled map,  *)
(* and whole passes applied to it.                                         *)
(***************************************************************************)
RuleGrids ==
    UNION {{filled(height, width, s) : s \in Streams(height * width)} :
              height \in 0..MaxDim, width \in 0..MaxDim}

InitRules ==
    /\ grid \in RuleGrids
    /\ last = [op |-> "fill", n |-> 0]
    /\ GenIdle
    /\ PassIdle

CountNeighbours(y, x) ==
    /\ last.op = "fill"
    /\ last' = [op |-> "count_neighbours", y |-> y, x |-> x,
                n |-> count_neighbours(grid, y, x),
                underflow |-> any_underflow(neighbour_probes(grid, y, x))]
    /\ UNCHANGED <<grid, args, pc, rng, cave, hist, pass>>

CountFarNeighbours(y, x) ==
    /\ last.op = "fill"
    /\ last' = [op |-> "count_far_neighbours", y |-> y, x |-> x,
                n |-> count_far_neighbours(grid, y, x),
                underflow |-> count_underflows(grid, y, x)]
    /\ UNCHANGED <<grid, args, pc, rng, cave, hist, pass>>

CalculateNewCell(y, x) ==
    /\ last.op = "fill"
    /\ last' = [op |-> "calculate_new_cell", y |-> y, x |-> x,
                ret |-> calculate_new_cell(grid, y, x)]
    /\ UNCHANGED <<grid, args, pc, rng, cave, hist, pass>>

CleanupCell(y, x) ==
    /\ last.op = "fill"
    /\ last' = [op |-> "cleanup_cell", y |-> y, x |-> x,
                ret |-> cleanup_cell(grid, y, x)]
    /\ UNCHANGED <<grid, args, pc, rng, cave, hist, pass>>

NextCellularAutomata ==
    /\ last.op = "fill"
    /\ grid' = next_cellular_automata(grid)
    /\ last' = [op |-> "next_cellular_automata", pre |-> grid]
    /\ UNCHANGED <<args, pc, rng, cave, hist, pass>>

\* Cleanup passes applied in a row: n counts them.
CleanupCellularAutomata ==
    /\ last.op \in {"fill", "cleanup_cellular_automata"}
    /\ last.n < MaxCleanups
    /\ grid' = cleanup_cellular_automata(grid)
    /\ last' = [op |-> "cleanup_cellular_automata", n |-> last.n + 1, pre |-> grid]
    /\ UNCHANGED <<args, pc, rng, cave, hist, pass>>

\* The cells a rule is applied to: every cell of a map just filled.
RuleCells == IF last.op = "fill" THEN Cells(grid) ELSE {}

NextRules ==
    \/ \E c \in RuleCells : CountNeighbours(c[1], c[2])
    \/ \E c \in RuleCells : CountFarNeighbours(c[1], c[2])
    \/ \E c \in RuleCells : CalculateNewCell(c[1], c[2])
    \/ \E c \in RuleCells : CleanupCell(c[1], c[2])
    \/ NextCellularAutomata
    \/ CleanupCellularAutomata

SpecRules == InitRules /\ [][NextRules]_vars

\* The definitions of the specification: a coordinate is wall when it lies outside
\* the map or holds true; the Moore neighbours and the ring at distance exactly 2.
IsWall(m, yy, xx) ==
    IF yy < 0 \/ xx < 0 \/ yy >= m.height \/ xx >= m.width THEN TRUE
    ELSE m.map[yy * m.width + xx]

Offsets(d) == {o \in (-d..d) \X (-d..d) : o[1] \in {-d, d} \/ o[2] \in {-d, d}}

WallsAt(m, y, x, d) ==
    Cardinality({o \in Offsets(d) : IsWall(m, y + o[1], x + o[2])})

AllWall(m) == \A c \in Cells(m) : m.map[c[1] * m.width + c[2]]

\* C7: count_neighbours(y, x) of an in-bounds cell is the number of its 8 Moore
\* neighbours that are wall, coordinates outside the map counted as wall, also in
\* row 0 and column 0, and it evaluates no unsigned subtraction below zero.
C7_LocalCount ==
    last.op = "count_neighbours" =>
        /\ last.n = WallsAt(grid, last.y, last.x, 1)
        /\ last.n \in 0..8
        /\ ~last.underflow

\* A count at a cell of row 0 or column 0 with a wall and a floor cell among its
\* in-bounds neighbours.
C7_Witness ==
    /\ last.op = "count_neighbours"
    /\ (last.y = 0 \/ last.x = 0)
    /\ \E o \in Offsets(1) :
          /\ <<last.y + o[1], last.x + o[2]>> \in Cells(grid)
          /\ IsWall(grid, last.y + o[1], last.x + o[2])
    /\ \E o \in Offsets(1) : ~IsWall(grid, last.y + o[1], last.x + o[2])
    /\ last.n = WallsAt(grid, last.y, last.x, 1)

\* C8: calculate_new_cell returns wall exactly when the local count is >= 5, or the
\* far count is 0, or the local count is 4 and the cell is wall; so a wall cell with
\* exactly 4 wall neighbours stays wall and a floor cell with exactly 4 stays floor.
C8_GrowthRule ==
    last.op = "calculate_new_cell" =>
        LET local == WallsAt(grid, last.y, last.x, 1)
            far == local + WallsAt(grid, last.y, last.x, 2)
        IN  last.ret = (\/ local >= 5
                        \/ far = 0
                        \/ local = 4 /\ IsWall(grid, last.y, last.x))

\* The rule applied to a wall cell with exactly 4 wall neighbours, all inside the
\* map, in a map that also holds a floor cell with exactly 4: the first stays wall,
\* the second would stay floor.
C8_Witness ==
    /\ last.op = "calculate_new_cell"
    /\ WallsAt(grid, last.y, last.x, 1) = 4
    /\ IsWall(grid, last.y, last.x)
    /\ last.ret
    /\ \E c \in Cells(grid) :
          /\ WallsAt(grid, c[1], c[2], 1) = 4
          /\ ~IsWall(grid, c[1], c[2])
          /\ ~calculate_new_cell(grid, c[1], c[2])

\* C9: count_far_neighbours(y, x) of an in-bounds cell is count_neighbours(y, x) plus
\* the number of wall coordinates among the 16 at Chebyshev distance exactly 2,
\* coordinates outside the map counted as wall, also within two rows or columns of
\* the top or left edge; it lies in 0..24 and is at least the local count.
C9_FarCount ==
    last.op = "count_far_neighbours" =>
        /\ last.n = count_neighbours(grid, last.y, last.x) + WallsAt(grid, last.y, last.x, 2)
        /\ last.n = WallsAt(grid, last.y, last.x, 1) + WallsAt(grid, last.y, last.x, 2)
        /\ last.n \in 0..24
        /\ last.n >= count_neighbours(grid, last.y, last.x)
        /\ ~last.underflow

\* A far count at a cell whose ring lies inside the map and holds a wall cell.
C9_Witness ==
    /\ last.op = "count_far_neighbours"
    /\ last.y >= 2 /\ last.x >= 2
    /\ last.y + 2 < grid.height /\ last.x + 2 < grid.width
    /\ WallsAt(grid, last.y, last.x, 2) \in 1..15
    /\ last.n = WallsAt(grid, last.y, last.x, 1) + WallsAt(grid, last.y, last.x, 2)

\* C5 as stated: a second cleanup pass returns the grid the first returned.
C5_CleanupIdempotent ==
    (last.op = "cleanup_cellular_automata" /\ last.n >= 2) => grid = last.pre

\* C5, amended: a grid whose cells are all wall is a fixed point of the cleanup
\* pass, so a second cleanup pass returns the grid the first returned whenever that
\* grid is all wall; the first pass returns such a grid for every grid of height or
\* width at most 1.
C5_CleanupFixesAllWall ==
    last.op = "cleanup_cellular_automata" =>
        /\ (last.n >= 2 /\ AllWall(last.pre)) => grid = last.pre
        /\ (grid.height <= 1 \/ grid.width <= 1) => AllWall(grid)

\* A second cleanup pass applied to an all-wall grid that the first made from a grid
\* with a floor cell.
C5_Witness ==
    /\ last.op = "cleanup_cellular_automata"
    /\ last.n = 2
    /\ Cells(grid) # {}
    /\ AllWall(last.pre)
    /\ grid = last.pre

(***************************************************************************)
(* Spec: one call of gen_cave through gen_cave_seed or gen_cave_no_seed.    *)
(* SpecTwice: two calls of gen_cave_seed, one after the other, with the    *)
(* same arguments.  args.cleanup tells the variant of gen_cave: with the   *)
(* cleanup pass (cave.rs) or without it (lib.rs).                          *)
(***************************************************************************)
GenArgs(maxdim) ==
    UNION {{[height |-> height, width |-> width, seed |-> seed, cleanup |-> cleanup] :
               seed \in Streams(height * width), cleanup \in BOOLEAN} :
           height \in 0..maxdim, width \in 0..maxdim}

InitCalls(maxdim, calls) ==
    /\ args \in GenArgs(maxdim)
    /\ pc = [r \in Runs |-> [at |-> IF r <= calls THEN "ready" ELSE "off",
                              i |-> 0, via |-> "none"]]
    /\ rng = NoRng
    /\ cave = NoCave
    /\ hist = NoHist
    /\ GridIdle
    /\ PassIdle

\* A call starts when the calls before it have returned.
Callable(r) == pc[r].at = "ready" /\ \A q \in Runs : q < r => pc[q].at = "done"

\* Pcg64::seed_from_u64(seed), as gen_cave_seed hands it to gen_cave.
seeded_rng_shared(seed) == [seed_from_u64(seed) EXCEPT !.pos = rng[1].pos]
seeded_rng(seed) == seed_from_u64(seed)

\* rand::thread_rng(): a stream fixed by the entropy of the process.
ThreadRngs == {[marks |-> {}, bg |-> b, pos |-> 0] : b \in {"floor", "wall"}}

\* gen_cave_seed up to Map::new of gen_cave.  args.seed stands for the u64 the seed
\* string resolves to (parsed, or hashed when it does not parse).
GenCaveSeed(r) ==
    /\ Callable(r)
    /\ rng' = [rng EXCEPT ![r] = seeded_rng(args.seed)]
    /\ cave' = [cave EXCEPT ![r] = new(args.height, args.width)]
    /\ pc' = [pc EXCEPT ![r] = [at |-> "fill", i |-> 0, via |-> "seed"]]
    /\ UNCHANGED <<grid, last, args, hist, pass>>

\* gen_cave_no_seed up to Map::new of gen_cave.
GenCaveNoSeed(r) ==
    /\ Callable(r)
    /\ \E t \in ThreadRngs : rng' = [rng EXCEPT ![r] = t]
    /\ cave' = [cave EXCEPT ![r] = new(args.height, args.width)]
    /\ pc' = [pc EXCEPT ![r] = [at |-> "fill", i |-> 0, via |-> "no_seed"]]
    /\ UNCHANGED <<grid, last, args, hist, pass>>

\* for _ in 0..5
growth_loop_continues_once_more(i) == i <= GROWTH_PASSES
growth_loop_continues(i) == i < GROWTH_PASSES

\* The position of a call in the body of gen_cave.
AtFill(r) == pc[r].at = "fill"
AtGrowth(r) == pc[r].at = "loop" /\ growth_loop_continues(pc[r].i)
AtCleanup(r) == pc[r].at = "loop" /\ ~growth_loop_continues(pc[r].i) /\ args.cleanup
AtReturn(r) ==
    \/ pc[r].at = "return"
    \/ pc[r].at = "loop" /\ ~growth_loop_continues(pc[r].i) /\ ~args.cleanup

\* map.fill_random(rng)
FillRandom(r) ==
    /\ AtFill(r)
    /\ LET f == fill_random(cave[r], rng[r]) IN
          /\ cave' = [cave EXCEPT ![r] = f.map]
          /\ rng' = [rng EXCEPT ![r] = f.rng]
    /\ hist' = [hist EXCEPT ![r] = Append(@, "fill")]
    /\ pc' = [pc EXCEPT ![r].at = "loop"]
    /\ UNCHANGED <<grid, last, args, pass>>

\* map = map.next_cellular_automata()
GrowthPass(r) ==
    /\ AtGrowth(r)
    /\ cave' = [cave EXCEPT ![r] = next_cellular_automata(@)]
    /\ hist' = [hist EXCEPT ![r] = Append(@, "growth")]
    /\ pc' = [pc EXCEPT ![r].i = @ + 1]
    /\ UNCHANGED <<grid, last, args, rng, pass>>

\* map = map.cleanup_cellular_automata(), in the variant that has the pass
CleanupPass(r) ==
    /\ AtCleanup(r)
    /\ cave' = [cave EXCEPT ![r] = cleanup_cellular_automata(@)]
    /\ hist' = [hist EXCEPT ![r] = Append(@, "cleanup")]
    /\ pc' = [pc EXCEPT ![r].at = "return"]
    /\ UNCHANGED <<grid, last, args, rng, pass>>

\* the trailing expression `map`
Return(r) ==
    /\ AtReturn(r)
    /\ pc' = [pc EXCEPT ![r].at = "done"]
    /\ UNCHANGED <<grid, last, args, rng, cave, hist, pass>>

Next ==
    \E r \in Runs :
        \/ GenCaveSeed(r)
        \/ GenCaveNoSeed(r)
        \/ FillRandom(r)
        \/ GrowthPass(r)
        \/ CleanupPass(r)
        \/ Return(r)

Init == InitCalls(MaxGenDim, 1)

Spec == Init /\ [][Next]_vars

InitTwice == InitCalls(MaxTwiceDim, 2)

NextTwice ==
    \E r \in Runs :
        \/ GenCaveSeed(r)
        \/ FillRandom(r)
        \/ GrowthPass(r)
        \/ CleanupPass(r)
        \/ Return(r)

SpecTwice == InitTwice /\ [][NextTwice]_vars

\* The passes gen_cave is to run, in order.
ExpectedPasses ==
    <<"fill">> \o [k \in 1..GROWTH_PASSES |-> "growth"]
               \o (IF args.cleanup THEN <<"cleanup">> ELSE <<>>)

IsPrefix(a, b) == Len(a) <= Len(b) /\ \A k \in 1..Len(a) : a[k] = b[k]

\* k growth passes, each applied to the grid the one before returned.
RECURSIVE Grown(_, _)
Grown(m, k) ==
    IF k = 0 THEN m
    ELSE LET before == CHOOSE g \in {Grown(m, k - 1)} : TRUE
         IN  next_cellular_automata(before)

\* The grid the passes make of the fill of the stream a call was given.
ExpectedCave(r) ==
    LET f == CHOOSE m \in {fill_random(new(args.height, args.width),
                                        [rng[r] EXCEPT !.pos = 0]).map} : TRUE
        g == CHOOSE m \in {Grown(f, GROWTH_PASSES)} : TRUE
    IN  IF args.cleanup THEN cleanup_cellular_automata(g) ELSE g

\* The call that returned last.
JustReturned(r) == pc[r].at = "done" /\ \A q \in Runs : q > r => pc[q].at = "ready"

C3_Deterministic ==
    (/\ pc[1].at = "done" /\ pc[1].via = "seed"
     /\ pc[2].at = "done" /\ pc[2].via = "seed")
        => /\ cave[1] = cave[2]
           /\ \A c \in Cells(cave[1]) : get(cave[1], c[1], c[2]) = get(cave[2], c[1], c[2])

\* Two seeded calls that returned the same grid, holding both wall and floor.
C3_Witness ==
    /\ pc[1].at = "done" /\ pc[1].via = "seed"
    /\ pc[2].at = "done" /\ pc[2].via = "seed"
    /\ cave[1] = cave[2]
    /\ \E c \in Cells(cave[1]) : get(cave[1], c[1], c[2])
    /\ \E c \in Cells(cave[1]) : ~get(cave[1], c[1], c[2])

\* Number of the 8 neighbours of a cell that lie outside the map.
OutsideNeighbours(m, y, x) ==
    Cardinality({o \in Offsets(1) :
                    \/ y + o[1] < 0 \/ y + o[1] >= m.height
                    \/ x + o[2] < 0 \/ x + o[2] >= m.width})

OnBoundary(m, y, x) == y = 0 \/ x = 0 \/ y = m.height - 1 \/ x = m.width - 1

\* C6 as stated: every cell of the first and last row and column of the grid
\* returned by the variant with the cleanup pass is wall.
C6_EnclosedBoundary ==
    \A r \in Runs :
        (pc[r].at = "done" /\ args.cleanup) =>
            \A c \in Cells(cave[r]) : OnBoundary(cave[r], c[1], c[2]) => get(cave[r], c[1], c[2])

\* C6, amended: in the grid returned by the variant with the cleanup pass, every
\* cell with at least 5 of its 8 neighbours outside the map is wall: the four
\* corners, and every cell of a grid of height 1 or width 1.
C6_CornersAreWall ==
    \A r \in Runs :
        (pc[r].at = "done" /\ args.cleanup) =>
            \A c \in Cells(cave[r]) :
                (\/ OutsideNeighbours(cave[r], c[1], c[2]) >= 5
                 \/ (c[1] \in {0, args.height - 1} /\ c[2] \in {0, args.width - 1})
                 \/ args.height = 1 \/ args.width = 1)
                    => get(cave[r], c[1], c[2])

\* A returned grid whose corners are wall and that has a floor cell on its boundary.
C6_Witness ==
    /\ pc[1].at = "done" /\ args.cleanup
    /\ args.height >= 2 /\ args.width >= 2
    /\ get(cave[1], 0, 0) /\ get(cave[1], args.height - 1, args.width - 1)
    /\ \E c \in Cells(cave[1]) : OnBoundary(cave[1], c[1], c[2]) /\ ~get(cave[1], c[1], c[2])

(***************************************************************************)
(* SpecPass: one automata pass (next_cellular_automata or                  *)
(* cleanup_cellular_automata) whose loop body runs once per cell, the      *)
(* cells taken in any order.                                               *)
(***************************************************************************)
PassDims == {d \in (0..MaxPassDim) \X (0..MaxPassDim) : d[1] * d[2] <= MaxPassCells}

PassSources ==
    UNION {{filled(d[1], d[2], s) : s \in Streams(d[1] * d[2])} : d \in PassDims}

InitPass ==
    /\ \E self \in PassSources, rule \in {"growth", "cleanup"} :
          /\ pass = [stage |-> "call", rule |-> rule, self |-> self, snapshot |-> self,
                     new_map |-> NoGrid, written |-> {}]
    /\ GridIdle
    /\ GenIdle

\* let mut new_map = Map::new(self.height, self.width);
PassNew ==
    /\ pass.stage = "call"
    /\ pass' = [pass EXCEPT !.stage = "loop",
                            !.new_map = new(pass.self.height, pass.self.width)]
    /\ UNCHANGED <<grid, last, args, pc, rng, cave, hist>>

\* new_map.set(i, j, self.<rule>(i, j)) for a cell not yet written
PassWrite(i, j) ==
    /\ pass.stage = "loop"
    /\ <<i, j>> \notin pass.written
    /\ pass' = [pass EXCEPT !.new_map = pass_write(pass.rule, pass.self, pass.new_map, i, j),
                            !.written = @ \cup {<<i, j>>}]
    /\ UNCHANGED <<grid, last, args, pc, rng, cave, hist>>

\* the trailing expression `new_map`, once the loops are over
PassReturn ==
    /\ pass.stage = "loop"
    /\ pass.written = Cells(pass.self)
    /\ pass' = [pass EXCEPT !.stage = "done"]
    /\ UNCHANGED <<grid, last, args, pc, rng, cave, hist>>

PassCells == IF pass.stage = "loop" THEN Cells(pass.self) ELSE {}

NextPass ==
    \/ PassNew
    \/ \E c \in PassCells : PassWrite(c[1], c[2])
    \/ PassReturn

SpecPass == InitPass /\ [][NextPass]_vars

\* The pass as the source runs it: rows outermost, columns innermost.
SequentialPass(rule, self) ==
    IF rule = "growth" THEN next_cellular_automata(self) ELSE cleanup_cellular_automata(self)

\* C10: a pass leaves its source grid as it was and fills a new grid of the same
\* height and width; every cell written is the rule applied to the source grid
\* alone, so the cells written in any order make the grid of the row-major pass.
C10_SynchronousPass ==
    pass.stage \in {"loop", "done"} =>
        /\ pass.self = pass.snapshot
        /\ pass.new_map.height = pass.self.height
        /\ pass.new_map.width = pass.self.width
        /\ DOMAIN pass.new_map.map = DOMAIN pass.self.map
        /\ \A c \in Cells(pass.self) :
              get(pass.new_map, c[1], c[2]) =
                  (c \in pass.written /\ rule_cell(pass.rule, pass.snapshot, c[1], c[2]))
        /\ pass.written = Cells(pass.self)
              => pass.new_map = SequentialPass(pass.rule, pass.snapshot)

\* A pass part-way, out of row-major order: the last cell is written and the first
\* is not, a written cell is wall where the source is floor, and another is floor
\* where the source is wall.
C10_Witness ==
    /\ pass.stage = "loop"
    /\ <<pass.self.height - 1, pass.self.width - 1>> \in pass.written
    /\ <<0, 0>> \notin pass.written
    /\ \E c \in pass.written :
          get(pass.new_map, c[1], c[2]) /\ ~get(pass.self, c[1], c[2])
    /\ \E c \in pass.written :
          ~get(pass.new_map, c[1], c[2]) /\ get(pass.self, c[1], c[2])

====
